---------------------------- MODULE Spec2Model ----------------------------
(***************************************************************************)
(* bayesloop/jeffreys.py: the Jeffreys prior of a SymPy random variable    *)
(* (getJeffreysPrior) and Uhlig's closed-form Jeffreys prior of the AR1    *)
(* process on a parameter grid (computeJeffreysPriorAR1).                  *)
(*                                                                         *)
(* numpy's float64 arrays are modelled by decimal floating-point numbers   *)
(* with a short significand and the exponent range of an IEEE double, and  *)
(* the special values inf and nan.  Every operation rounds towards zero.   *)
(***************************************************************************)
EXTENDS Integers, Sequences, FiniteSets, Bags, TLC

(***************************************************************************)
(* float64, as numpy computes with it                                      *)
(***************************************************************************)

\* decimal digits kept in a significand
MantDigits == 4
\* decimal exponent of the largest finite double (1.8e308)
FloatMaxExp == 308
\* decimal exponent of the smallest positive double (4.9e-324)
FloatMinExp == -324

RECURSIVE Pow10(_)
Pow10(n) == IF n <= 0 THEN 1 ELSE 10 * Pow10(n - 1)

MantHi == Pow10(MantDigits)
MantLo == Pow10(MantDigits - 1)

Abs(n) == IF n < 0 THEN -n ELSE n
Sgn(n) == IF n < 0 THEN -1 ELSE IF n = 0 THEN 0 ELSE 1
\* integer quotient rounded towards zero
Quot(a, b) == Sgn(a) * Sgn(b) * (Abs(a) \div Abs(b))

NaN == [k |-> "nan", m |-> 0, e |-> 0]
Inf(sign) == [k |-> "inf", m |-> sign, e |-> 0]
Zero == [k |-> "fin", m |-> 0, e |-> 0]
Fin(m, e) == [k |-> "fin", m |-> m, e |-> e]

IsNaN(x) == x.k = "nan"
IsInf(x) == x.k = "inf"
IsFin(x) == x.k = "fin"
IsZero(x) == x.k = "fin" /\ x.m = 0

\* the double nearest to m * 10^e: significand of MantDigits digits,
\* overflow to inf, underflow to 0
RECURSIVE Normalise(_, _)
Normalise(m, e) ==
    IF m = 0 THEN Zero
    ELSE IF Abs(m) >= MantHi THEN Normalise(Quot(m, 10), e + 1)
    ELSE IF Abs(m) < MantLo THEN Normalise(m * 10, e - 1)
    ELSE IF e + MantDigits - 1 > FloatMaxExp THEN Inf(Sgn(m))
    ELSE IF e + MantDigits - 1 < FloatMinExp THEN Zero
    ELSE Fin(m, e)

\* a Python int or decimal literal n * 10^e as a double
Dec(n, e) == Normalise(n, e)
FromInt(n) == Normalise(n, 0)
One == FromInt(1)

FNeg(x) == IF IsNaN(x) THEN NaN ELSE [x EXCEPT !.m = -x.m]
FAbs(x) == IF IsNaN(x) THEN NaN ELSE [x EXCEPT !.m = Abs(x.m)]

FMul(x, y) ==
    IF IsNaN(x) \/ IsNaN(y) THEN NaN
    ELSE IF IsInf(x) \/ IsInf(y)
         THEN IF IsZero(x) \/ IsZero(y) THEN NaN ELSE Inf(Sgn(x.m) * Sgn(y.m))
    ELSE Normalise(x.m * y.m, x.e + y.e)

FDiv(x, y) ==
    IF IsNaN(x) \/ IsNaN(y) THEN NaN
    ELSE IF IsInf(x)
         THEN IF IsInf(y) THEN NaN
              ELSE Inf(x.m * (IF y.m < 0 THEN -1 ELSE 1))
    ELSE IF IsInf(y) THEN Zero
    ELSE IF IsZero(y)
         THEN IF IsZero(x) THEN NaN ELSE Inf(Sgn(x.m))
    ELSE Normalise(Quot(x.m * MantHi, y.m), x.e - y.e - MantDigits)

FAdd(x, y) ==
    IF IsNaN(x) \/ IsNaN(y) THEN NaN
    ELSE IF IsInf(x)
         THEN IF IsInf(y) /\ y.m # x.m THEN NaN ELSE x
    ELSE IF IsInf(y) THEN y
    ELSE IF IsZero(x) THEN y
    ELSE IF IsZero(y) THEN x
    ELSE IF x.e >= y.e
         THEN IF x.e - y.e > MantDigits THEN x
              ELSE Normalise(x.m * Pow10(x.e - y.e) + y.m, y.e)
         ELSE IF y.e - x.e > MantDigits THEN y
              ELSE Normalise(y.m * Pow10(y.e - x.e) + x.m, x.e)

FSub(x, y) == FAdd(x, FNeg(y))

\* x >= y on doubles: False when either is nan
FGe(x, y) ==
    IF IsNaN(x) \/ IsNaN(y) THEN FALSE
    ELSE IF IsInf(x) THEN x.m = 1 \/ (IsInf(y) /\ y.m = -1)
    ELSE IF IsInf(y) THEN y.m = -1
    ELSE IF Sgn(x.m) # Sgn(y.m) THEN Sgn(x.m) > Sgn(y.m)
    ELSE IF x.m = 0 THEN TRUE
    ELSE IF x.e # y.e THEN (IF x.m > 0 THEN x.e > y.e ELSE x.e < y.e)
    ELSE x.m >= y.m

\* floor of the square root of a natural number below 2^31
RECURSIVE ISqrtIn(_, _, _)
ISqrtIn(n, lo, hi) ==
    IF lo >= hi THEN lo
    ELSE LET mid == (lo + hi + 1) \div 2
         IN IF mid * mid <= n THEN ISqrtIn(n, mid, hi) ELSE ISqrtIn(n, lo, mid - 1)
ISqrt(n) == ISqrtIn(n, 0, 4 * MantHi)

\* np.sqrt, and x**.5
FSqrt(x) ==
    IF IsNaN(x) THEN NaN
    ELSE IF IsInf(x) THEN (IF x.m = 1 THEN x ELSE NaN)
    ELSE IF x.m < 0 THEN NaN
    ELSE IF x.m = 0 THEN Zero
    ELSE IF (x.e + MantDigits) % 2 = 0
         THEN Normalise(ISqrt(x.m * MantHi), (x.e - MantDigits) \div 2)
         ELSE Normalise(ISqrt(x.m * MantHi * 10), (x.e - MantDigits - 1) \div 2)

\* e^(t / MantHi) * MantHi for 0 <= t < MantHi, by its Taylor series
RECURSIVE ExpSeries(_, _, _)
ExpSeries(t, term, k) ==
    IF term = 0 THEN 0
    ELSE term + ExpSeries(t, (term * t) \div (k * MantHi), k + 1)
ExpFrac(t) == ExpSeries(t, MantHi, 1)

\* x^n for a natural number n, by squaring
RECURSIVE FPowNat(_, _)
FPowNat(x, n) ==
    IF n = 0 THEN One
    ELSE LET h == FPowNat(x, n \div 2)
             sq == FMul(h, h)
         IN IF n % 2 = 1 THEN FMul(sq, x) ELSE sq

\* 1/e
InvE == Dec(3679, -4)

\* e^(-a) for a finite double a >= 0: e^(-floor(a)) * e^(-frac(a))
ExpNeg(a) ==
    IF IsZero(a) THEN One
    ELSE IF a.e >= 0 THEN Zero
    ELSE LET whole == IF -a.e > MantDigits THEN 0 ELSE a.m \div Pow10(-a.e)
             frac  == IF -a.e > 2 * MantDigits THEN 0
                      ELSE IF -a.e > MantDigits
                           THEN a.m \div Pow10(-a.e - MantDigits)
                      ELSE (a.m % Pow10(-a.e)) * Pow10(MantDigits + a.e)
         IN FMul(FPowNat(InvE, whole),
                 Normalise((MantHi * MantHi) \div ExpFrac(frac), -MantDigits))

\* np.exp
FExp(x) ==
    IF IsNaN(x) THEN NaN
    ELSE IF IsInf(x) THEN (IF x.m = 1 THEN x ELSE Zero)
    ELSE IF x.m <= 0 THEN ExpNeg(FAbs(x))
    ELSE FDiv(One, ExpNeg(x))

(***************************************************************************)
(* computeJeffreysPriorAR1(study)                                          *)
(***************************************************************************)

\* largest number of grid points, and of observations, of a study
MaxGrid == 2
MaxData == 2

\* str(study.observationModel)
AR1Name == "Autoregressive process of first order (AR1)"
ScaledAR1Name == "Scaled autoregressive process of first order (AR1)"
OtherName == "Poisson"

\* the lines the function prints
MsgUnsupported ==
    <<"! Jeffreys prior for autoregressive process can only be used with AR1 and ScaledAR1 models.">>
MsgNonStationary ==
    <<"! Jeffreys prior for auto-regressive process is only implemented for stationary processes.",
      "  Values abs(r) >= 1 are not allowed for this implementation of the prior.",
      "  Will set flat prior instead.">>
MsgMissingData ==
    <<"! Data must be loaded before computing the Jeffreys prior for the autoregressive process.">>

\* the values a grid and the observations are drawn from; the two grids of a
\* study are float64 arrays of one shape
RValues == {Dec(-12, -1), Zero, Dec(5, -1), One}
SValues == {Zero, One, FromInt(2)}
DValues == {Dec(2, -1), FromInt(40)}

SeqsUpTo(S, lo, hi) == UNION {[1..n -> S] : n \in lo..hi}

VARIABLES
    study,      \* the Study: observationModel, grid (two array references), rawData
    heap,       \* the numpy arrays, by reference
    before,     \* the study's contents when the function was called
    pc,         \* "start", "returned", "twin"
    ret,        \* what the call returned: None, or the returned array
    printed,    \* the lines the call printed
    reads,      \* the attributes of study the call read
    raised,     \* the exception the call raised, "" when none
    twinRaw,    \* the rawData of a second study with the same model and grid
    twinRet     \* what the call on the second study returned

varsAR1 == <<study, heap, before, pc, ret, printed, reads, raised, twinRaw, twinRet>>

VARIABLES
    rv,          \* the random variable: its free_symbols and its support
    jpc,         \* "start", "loop", "done"
    call,        \* 1 in the first call on rv, 2 in the second
    parameters,  \* list(free_symbols)
    func,        \* summation or integrate
    ij,          \* the loop indices <<i, j>>
    G,           \* the Fisher information matrix, by <<row, column>>
    written,     \* the <<row, column>> pairs assigned so far, in order
    returns      \* what each finished call returned

varsJ == <<rv, jpc, call, parameters, func, ij, G, written, returns>>
vars == <<varsAR1, varsJ>>

None == <<"None">>
NdArray(a) == <<"ndarray", a>>
NotCalled == <<"not called">>

Sq(x) == FMul(x, x)

\* a new array takes the next reference
Alloc(h, a) == Append(h, a)

\* np.sum
RECURSIVE SumTo(_, _)
SumTo(a, n) == IF n = 0 THEN Zero ELSE FAdd(SumTo(a, n - 1), a[n])
NpSum(a) == SumTo(a, Len(a))

\* a /= d, in place
DivInPlace(h, id, d) == [h EXCEPT ![id] = [i \in 1..Len(@) |-> FDiv(@[i], d)]]

\* s*np.sqrt(1 - r**2.)
ScaledS(rArr, sArr) ==
    [i \in 1..Len(sArr) |-> FMul(sArr[i], FSqrt(FSub(One, Sq(rArr[i]))))]

\* the variant s *= np.sqrt(1 - r**2.): the product written into the study's array
RescaleInPlace(h, r, s) == [heap |-> [h EXCEPT ![s] = ScaledS(h[r], h[s])], s |-> s]

\* s = s*np.sqrt(1 - r**2.): the product is a new array, bound to the local s
Rescale(h, r, s) == [heap |-> Alloc(h, ScaledS(h[r], h[s])), s |-> Len(h) + 1]

\* the variant without the else branch: every name passes
IsSupportedAny(name) == TRUE

\* the two model names the function accepts
IsSupported(name) == name = AR1Name \/ name = ScaledAR1Name

\* the variant np.all(np.abs(r) >= 1.)
AllNonStationary(rArr) == \A i \in 1..Len(rArr) : FGe(FAbs(rArr[i]), One)

\* np.any(np.abs(r) >= 1.)
AnyNonStationary(rArr) == \E i \in 1..Len(rArr) : FGe(FAbs(rArr[i]), One)

\* the variant without the test for loaded data
NoDataDropped(rawData) == FALSE

\* len(study.rawData) == 0
NoData(rawData) == Len(rawData) = 0

\* flat = np.ones_like(r); flat /= np.sum(flat)
FlatPrior(h, r) ==
    LET flat == Len(h) + 1
        h1 == Alloc(h, [i \in 1..Len(h[r]) |-> One])
    IN [heap |-> DivInPlace(h1, flat, NpSum(h1[flat])), ret |-> flat]

\* (1/s**2.)*np.exp(-d0**2.*(1-r**2.)/(2*s**2.))*(4*(r**2.)/(1-r**2.)+2*(n+1))**.5
Uhlig(r, s, d0, n) ==
    FMul(FMul(FDiv(One, Sq(s)),
              FExp(FDiv(FMul(FNeg(Sq(d0)), FSub(One, Sq(r))),
                        FMul(FromInt(2), Sq(s))))),
         FSqrt(FAdd(FDiv(FMul(FromInt(4), Sq(r)), FSub(One, Sq(r))),
                    FromInt(2 * (n + 1)))))

\* prior = ...; prior /= np.sum(prior)
ClosedFormPrior(h, r, s, d0, n) ==
    LET prior == Len(h) + 1
        h1 == Alloc(h, [i \in 1..Len(h[r]) |-> Uhlig(h[r][i], h[s][i], d0, n)])
    IN [heap |-> DivInPlace(h1, prior, NpSum(h1[prior])), ret |-> prior]

\* the variant d0 = study.rawData[-1]
DataOfLast(rawData) == [d0 |-> rawData[Len(rawData)], n |-> Len(rawData)]

\* d0 = study.rawData[0]; n = len(study.rawData)
DataOf(rawData) == [d0 |-> rawData[1], n |-> Len(rawData)]

Outcome(r, h, p, rd, x) == [ret |-> r, heap |-> h, printed |-> p, reads |-> rd, raised |-> x]

\* the whole function: the reference it returns (0 for None), the heap it
\* leaves, what it printed, the attributes it read, the exception it raised
ComputeJeffreysPriorAR1(st, h) ==
    IF ~IsSupported(st.observationModel)
    THEN Outcome(0, h, MsgUnsupported, {"observationModel"}, "")
    ELSE LET r == st.grid[1]
             sel == IF st.observationModel = AR1Name
                    THEN [heap |-> h, s |-> st.grid[2]]
                    ELSE Rescale(h, st.grid[1], st.grid[2])
         IN IF AnyNonStationary(sel.heap[r])
            THEN LET f == FlatPrior(sel.heap, r)
                 IN Outcome(f.ret, f.heap, MsgNonStationary,
                            {"observationModel", "grid"}, "")
            ELSE IF NoData(st.rawData)
            THEN Outcome(0, sel.heap, MsgMissingData,
                         {"observationModel", "grid", "rawData"}, "")
            ELSE IF Len(st.rawData) = 0
            THEN Outcome(0, sel.heap, <<>>,
                         {"observationModel", "grid", "rawData"}, "IndexError")
            ELSE LET d == DataOf(st.rawData)
                     p == ClosedFormPrior(sel.heap, r, sel.s, d.d0, d.n)
                 IN Outcome(p.ret, p.heap, <<>>,
                            {"observationModel", "grid", "rawData"}, "")

\* what the caller holds after the call
Returned(out) == IF out.ret = 0 THEN None ELSE NdArray(out.heap[out.ret])

\* the contents of a study: its model name, the two grids, the observations
Contents(st, h) ==
    [observationModel |-> st.observationModel,
     r |-> h[st.grid[1]], s |-> h[st.grid[2]],
     rawData |-> st.rawData]

InitAR1 ==
    /\ \E name \in {AR1Name, ScaledAR1Name, OtherName} :
       \E n \in 0..MaxGrid :
       \E rArr \in [1..n -> RValues], sArr \in [1..n -> SValues] :
       \E data \in SeqsUpTo(DValues, 0, MaxData) :
          /\ study = [observationModel |-> name, grid |-> <<1, 2>>, rawData |-> data]
          /\ heap = <<rArr, sArr>>
    /\ before = Contents(study, heap)
    /\ pc = "start"
    /\ ret = NotCalled
    /\ printed = <<>>
    /\ reads = {}
    /\ raised = ""
    /\ twinRaw = <<>>
    /\ twinRet = NotCalled

\* computeJeffreysPriorAR1(study)
Call ==
    /\ pc = "start"
    /\ LET out == ComputeJeffreysPriorAR1(study, heap)
       IN /\ heap' = out.heap
          /\ ret' = Returned(out)
          /\ printed' = out.printed
          /\ reads' = out.reads
          /\ raised' = out.raised
    /\ pc' = "returned"
    /\ UNCHANGED <<study, before, twinRaw, twinRet>>
    /\ UNCHANGED <<rv, jpc, call, parameters, func, ij, G, written, returns>>

\* the observation sequences that agree with rawData in length and first element
Twins(rawData) ==
    {t \in [1..Len(rawData) -> DValues] : Len(rawData) > 0 => t[1] = rawData[1]}

\* computeJeffreysPriorAR1 on a second study: same observationModel, a grid of
\* its own with the same values, other observations
CallTwin ==
    /\ pc = "returned"
    /\ \E t \in Twins(study.rawData) :
          /\ twinRaw' = t
          /\ twinRet' = Returned(ComputeJeffreysPriorAR1(
                            [observationModel |-> before.observationModel,
                             grid |-> <<1, 2>>, rawData |-> t],
                            <<before.r, before.s>>))
    /\ pc' = "twin"
    /\ UNCHANGED <<study, heap, before, ret, printed, reads, raised>>
    /\ UNCHANGED <<rv, jpc, call, parameters, func, ij, G, written, returns>>

(***************************************************************************)
(* getJeffreysPrior(rv)                                                    *)
(***************************************************************************)

\* largest number of free parameters of a distribution
MaxParams == 2

\* the symbols a distribution's parameters are drawn from
Symbols == {"mu", "sigma", "rate"}

\* rv._sorted_args[0].distribution.set: whether it is iterable, its bounds
Supports ==
    {[is_iterable |-> FALSE, inf |-> "0", sup |-> "oo"],
     [is_iterable |-> FALSE, inf |-> "-oo", sup |-> "oo"],
     [is_iterable |-> TRUE, inf |-> "0", sup |-> "oo"],
     [is_iterable |-> TRUE, inf |-> "1", sup |-> "oo"]}


\* the lists a set can be listed as
ListsOf(S) ==
    {q \in [1..Cardinality(S) -> S] : \A a, b \in DOMAIN q : q[a] = q[b] => a = b}

\* abc.x
abc_x == "x"
\* density(rv)(x)
SymPDF == <<"density(rv)", abc_x>>
Ln(e) == <<"ln", e>>
Diff(e, p) == <<"diff", e, p>>
\* a product: SymPy's Mul keeps its factors as an unordered collection
Mul(a, b, c) == SetToBag({a}) (+) SetToBag({b}) (+) SetToBag({c})
Simplify(e) == <<"simplify", e>>
\* an entry of Matrix.zeros(dim, dim)
ZeroEntry == [op |-> "0", of |-> <<>>, limits |-> <<>>]

\* func = summation if support.is_iterable else integrate
ChooseFunc(support) == IF support.is_iterable THEN "summation" ELSE "integrate"

\* the variant whose second derivative is of the density, not of its logarithm
EntryNoLn(f, support, pi, pj) ==
    [op |-> f,
     of |-> Simplify(Mul(SymPDF, Diff(Ln(SymPDF), pi), Diff(SymPDF, pj))),
     limits |-> <<abc_x, support.inf, support.sup>>]

\* func(simplify(symPDF * diff(ln(symPDF), parameters[i]) *
\*               diff(ln(symPDF), parameters[j])), (x, support.inf, support.sup))
Entry(f, support, pi, pj) ==
    [op |-> f,
     of |-> Simplify(Mul(SymPDF, Diff(Ln(SymPDF), pi), Diff(Ln(SymPDF), pj))),
     limits |-> <<abc_x, support.inf, support.sup>>]

\* G.det(): a function of the entries by the parameters that index them
Det(g, params) ==
    <<"det", [p \in {params[k] : k \in DOMAIN params},
              q \in {params[k] : k \in DOMAIN params} |->
                 g[<<CHOOSE a \in DOMAIN params : params[a] = p,
                     CHOOSE b \in DOMAIN params : params[b] = q>>]]>>

\* simplify(sqrt(G.det()))
SymJeff(g, params) == Simplify(<<"sqrt", Det(g, params)>>)

Reversed(q) == [k \in DOMAIN q |-> q[Len(q) + 1 - k]]
\* the variant lambdify(parameters[::-1], symJeff, 'numpy')
LambdifyReversed(params, expr) == [args |-> Reversed(params), body |-> expr]

\* lambdify(parameters, symJeff, 'numpy'): a callable of these positional arguments
Lambdify(params, expr) == [args |-> params, body |-> expr]

\* the next <<i, j>> of the two nested loops over range(0, dim)
NextIJ(p, dim) == IF p[2] < dim THEN <<p[1], p[2] + 1>> ELSE <<p[1] + 1, 1>>

AR1Parked ==
    /\ study = [observationModel |-> OtherName, grid |-> <<1, 2>>, rawData |-> <<>>]
    /\ heap = <<<<Zero>>, <<One>>>>
    /\ before = Contents(study, heap)
    /\ pc = "idle"
    /\ ret = NotCalled
    /\ printed = <<>>
    /\ reads = {}
    /\ raised = ""
    /\ twinRaw = <<>>
    /\ twinRet = NotCalled

JParked ==
    /\ rv = [free_symbols |-> {}, support |-> CHOOSE s \in Supports : ~s.is_iterable]
    /\ jpc = "idle"
    /\ call = 1
    /\ parameters = <<>>
    /\ func = ""
    /\ ij = <<1, 1>>
    /\ G = <<>>
    /\ written = <<>>
    /\ returns = <<>>

InitJ ==
    /\ \E fs \in SUBSET Symbols, sup \in Supports :
          /\ Cardinality(fs) <= MaxParams
          /\ rv = [free_symbols |-> fs, support |-> sup]
    /\ jpc = "start"
    /\ call = 1
    /\ parameters = <<>>
    /\ func = ""
    /\ ij = <<1, 1>>
    /\ G = <<>>
    /\ written = <<>>
    /\ returns = <<>>

\* lines 33-46: the support, the parameter list, the empty matrix, the operator
Begin ==
    /\ jpc = "start"
    /\ \E order \in ListsOf(rv.free_symbols) : parameters' = order
    /\ G' = [p \in (1..Cardinality(rv.free_symbols)) \X (1..Cardinality(rv.free_symbols))
                |-> ZeroEntry]
    /\ func' = ChooseFunc(rv.support)
    /\ ij' = <<1, 1>>
    /\ written' = <<>>
    /\ jpc' = "loop"
    /\ UNCHANGED <<rv, call, returns>>
    /\ UNCHANGED varsAR1

\* lines 47-52: one pass of the inner loop
FillEntry ==
    /\ jpc = "loop"
    /\ ij[1] <= Len(parameters)
    /\ G' = [G EXCEPT ![ij] = Entry(func, rv.support, parameters[ij[1]], parameters[ij[2]])]
    /\ written' = Append(written, ij)
    /\ ij' = NextIJ(ij, Len(parameters))
    /\ UNCHANGED <<rv, jpc, call, parameters, func, returns>>
    /\ UNCHANGED varsAR1

\* lines 55-58: the loops are over; the prior and its callable are returned
Finish ==
    /\ jpc = "loop"
    /\ ij[1] > Len(parameters)
    /\ returns' = Append(returns,
                         [symJeff |-> SymJeff(G, parameters),
                          lambda |-> Lambdify(parameters, SymJeff(G, parameters))])
    /\ jpc' = "done"
    /\ UNCHANGED <<rv, call, parameters, func, ij, G, written>>
    /\ UNCHANGED varsAR1

\* the caller calls getJeffreysPrior(rv) again, with the same rv
CallAgain ==
    /\ jpc = "done"
    /\ call = 1
    /\ call' = 2
    /\ jpc' = "start"
    /\ parameters' = <<>>
    /\ func' = ""
    /\ ij' = <<1, 1>>
    /\ G' = <<>>
    /\ written' = <<>>
    /\ UNCHANGED <<rv, returns>>
    /\ UNCHANGED varsAR1

Init == InitAR1 /\ JParked
Next == Call \/ CallTwin
Spec == Init /\ [][Next]_vars

InitG == AR1Parked /\ InitJ
NextJ == Begin \/ FillEntry \/ Finish \/ CallAgain
SpecJ == InitG /\ [][NextJ]_vars

(***************************************************************************)
(* The properties of computeJeffreysPriorAR1, on the study as it was when  *)
(* the function was called                                                 *)
(***************************************************************************)

Called == pc \in {"returned", "twin"}
InputSupported == before.observationModel \in {AR1Name, ScaledAR1Name}
GridPoints == 1..Len(before.r)
NonStationaryAt(i) == FGe(FAbs(before.r[i]), One)
SomeNonStationary == \E i \in GridPoints : NonStationaryAt(i)
AllStationary == \A i \in GridPoints : ~NonStationaryAt(i)
ReturnedArray == ret[1] = "ndarray"
IsNumber(v) == IsFin(v)

\* C1: with a supported model and some grid point with |r| >= 1, the call
\* returns a grid shaped like r whose every entry, those at stationary points
\* included, is 1/total_grid_points; the closed form is used for no point.
C1_FlatFallback ==
    (Called /\ InputSupported /\ SomeNonStationary) =>
        /\ ret = NdArray([i \in GridPoints |-> FDiv(One, FromInt(Len(before.r)))])
        /\ printed = MsgNonStationary

C1_Witness ==
    /\ pc = "returned"
    /\ before.observationModel = ScaledAR1Name
    /\ \E i, j \in GridPoints : NonStationaryAt(i) /\ ~NonStationaryAt(j)
    /\ before.rawData # <<>>
    /\ ReturnedArray

\* C2 as stated: whenever rawData is empty the call signals the missing-data
\* condition and returns no grid, whatever the grid holds.
C2_Original ==
    (Called /\ before.rawData = <<>>) => (ret = None /\ printed = MsgMissingData)

\* C2 as amended: with rawData empty and a supported model, the call signals
\* the missing-data condition and returns no grid when every grid point has
\* |r| < 1; when some point has |r| >= 1 it returns the flat grid instead; with
\* an unsupported model it signals the unsupported-model condition.
C2_Amended ==
    (Called /\ before.rawData = <<>>) =>
        /\ raised = ""
        /\ (InputSupported /\ AllStationary) =>
               (ret = None /\ printed = MsgMissingData)
        /\ (InputSupported /\ SomeNonStationary) =>
               (ReturnedArray /\ printed = MsgNonStationary)
        /\ ~InputSupported => (ret = None /\ printed = MsgUnsupported)

C2_Witness ==
    /\ pc = "returned"
    /\ before.rawData = <<>>
    /\ InputSupported
    /\ AllStationary
    /\ printed = MsgMissingData
    /\ ret = None

\* C3: with a model name that is neither supported one, the call signals the
\* unsupported-model condition and returns no grid, for every grid and every
\* rawData, and reads neither the grid nor rawData.
C3_Unsupported ==
    (Called /\ ~InputSupported) =>
        /\ ret = None
        /\ printed = MsgUnsupported
        /\ reads = {"observationModel"}

C3_Witness ==
    /\ pc = "returned"
    /\ ~InputSupported
    /\ SomeNonStationary
    /\ before.rawData # <<>>
    /\ ret = None

\* the closed-form case: a supported model, observations, every |r| < 1
ClosedFormCase == Called /\ InputSupported /\ before.rawData # <<>> /\ AllStationary

\* 1 within the tolerance of the arithmetic
NearOne(v) == FGe(v, Dec(999, -3)) /\ FGe(Dec(1001, -3), v)

\* C4: in the closed-form case the returned array sums to 1 and every entry
\* is non-negative (on a grid of at least one point: an empty array sums to 0).
C4_SumsToOne ==
    (ClosedFormCase /\ Len(before.r) > 0) =>
        /\ ReturnedArray
        /\ \A i \in GridPoints : IsNumber(ret[2][i]) /\ FGe(ret[2][i], Zero)
        /\ NearOne(NpSum(ret[2]))

\* C5: the call leaves study.grid, study.rawData and study.observationModel
\* with the values they had before it, on every path.
C5_ReadOnly == Called => Contents(study, heap) = before

C5_Witness ==
    /\ pc = "returned"
    /\ before.observationModel = ScaledAR1Name
    /\ ReturnedArray
    /\ Len(heap) = 4
    /\ heap[3] # before.s

\* s' of the claim: s for the direct model, s * sqrt(1 - r^2) for the scaled one
ClaimS(i) ==
    IF before.observationModel = AR1Name THEN before.s[i]
    ELSE FMul(before.s[i], FSqrt(FSub(One, FMul(before.r[i], before.r[i]))))

\* (1/s'^2) * exp(-d0^2 * (1 - r^2) / (2 s'^2)) * sqrt(4 r^2 / (1 - r^2) + 2 (n + 1))
ClaimUhlig(i) ==
    LET r2 == FMul(before.r[i], before.r[i])
        s2 == FMul(ClaimS(i), ClaimS(i))
        d2 == FMul(before.rawData[1], before.rawData[1])
        n == Len(before.rawData)
    IN FMul(FMul(FDiv(One, s2),
                 FExp(FDiv(FMul(FNeg(d2), FSub(One, r2)), FMul(FromInt(2), s2)))),
            FSqrt(FAdd(FDiv(FMul(FromInt(4), r2), FSub(One, r2)), FromInt(2 * (n + 1)))))

ClaimUhligSum == NpSum([i \in GridPoints |-> ClaimUhlig(i)])

\* C9: in the closed-form case each returned entry is the number the claim's
\* expression gives at its grid point, divided by the sum of the expression
\* over the grid (a grid with s = 0, where the expression is undefined, aside).
C9_ClosedForm ==
    (ClosedFormCase /\ \A i \in GridPoints : ~IsZero(before.s[i])) =>
        /\ ReturnedArray
        /\ \A i \in GridPoints :
              /\ IsNumber(ret[2][i])
              /\ ret[2][i] = FDiv(ClaimUhlig(i), ClaimUhligSum)

\* What holds of the closed-form case: the array returned is the claim's
\* expression divided by its sum, in the arithmetic of the code; and when that
\* sum is a positive number the array sums to 1 and has no negative entry.
ClosedFormWhereDefined ==
    ClosedFormCase =>
        /\ ReturnedArray
        /\ ret[2] = [i \in GridPoints |-> FDiv(ClaimUhlig(i), ClaimUhligSum)]
        /\ (IsNumber(ClaimUhligSum) /\ ~IsZero(ClaimUhligSum)) =>
              /\ Len(before.r) > 0
              /\ \A i \in GridPoints : IsNumber(ret[2][i]) /\ FGe(ret[2][i], Zero)
              /\ NearOne(NpSum(ret[2]))

\* C10: a second study with the same model and grid, and observations of the
\* same length and first element, gets the same outcome.
C10_FirstAndLength ==
    (/\ pc = "twin"
     /\ Len(twinRaw) = Len(before.rawData)
     /\ (Len(twinRaw) > 0 => twinRaw[1] = before.rawData[1])) => twinRet = ret

C10_Witness ==
    /\ pc = "twin"
    /\ twinRaw # before.rawData
    /\ InputSupported
    /\ AllStationary
    /\ ReturnedArray
    /\ \A i \in GridPoints : IsNumber(ret[2][i])
    /\ \E i, j \in GridPoints : ret[2][i] # ret[2][j]

(***************************************************************************)
(* The properties of getJeffreysPrior                                      *)
(***************************************************************************)

Dim == Cardinality(rv.free_symbols)
Pairs == (1..Dim) \X (1..Dim)
\* the factors of the product an entry reduces
Factors(entry) == entry.of[2]
\* the entry differentiates the log-density with respect to p, `times' times
DiffersBy(entry, p, times) == CopiesIn(<<"diff", <<"ln", SymPDF>>, p>>, Factors(entry)) = times

\* C6: the k-th positional argument of the returned callable is the parameter
\* that indexes row k and column k of the Fisher information matrix.
C6_ArgumentOrder ==
    jpc = "done" =>
        LET args == returns[Len(returns)].lambda.args
        IN /\ Len(args) = Dim
           /\ \A k \in 1..Dim : DiffersBy(G[<<k, k>>], args[k], 2)
           /\ \A p \in Pairs : p[1] # p[2] =>
                 /\ DiffersBy(G[p], args[p[1]], 1)
                 /\ DiffersBy(G[p], args[p[2]], 1)

C6_Witness == jpc = "done" /\ Dim >= 2 /\ Len(returns[Len(returns)].lambda.args) = Dim

SameExpressionSameParameters ==
    Len(returns) = 2 =>
        /\ returns[1].symJeff = returns[2].symJeff
        /\ returns[1].lambda.body = returns[2].lambda.body
        /\ {returns[1].lambda.args[k] : k \in 1..Dim} = rv.free_symbols
        /\ {returns[2].lambda.args[k] : k \in 1..Dim} = rv.free_symbols

\* C8: all k*k entries are filled, one reduction per ordered pair (i, j); every
\* entry uses the same operator over (x, support.inf, support.sup), summation
\* when the support is enumerable and integration otherwise; the matrix is
\* symmetric.
C8_FisherMatrix ==
    jpc = "done" =>
        /\ Len(written) = Dim * Dim
        /\ \A p \in Pairs : Cardinality({n \in 1..Len(written) : written[n] = p}) = 1
        /\ \A p \in Pairs :
              /\ G[p] # ZeroEntry
              /\ G[p].op = (IF rv.support.is_iterable THEN "summation" ELSE "integrate")
              /\ G[p].limits = <<"x", rv.support.inf, rv.support.sup>>
        /\ \A p \in Pairs : G[p] = G[<<p[2], p[1]>>]

C8_Witness ==
    /\ jpc = "done"
    /\ Dim >= 2
    /\ rv.support.is_iterable
    /\ Len(written) = Dim * Dim
=============================================================================
